---- MODULE Spec2Model ----
(***************************************************************************)
(* Model of the geospatial POI catalog of FoodBackend/placesdatabase.py:   *)
(* PlacesManager.__init__ (the catalog build) and                          *)
(* PlacesManager.find_nearby_pois (the radius query); of the handlers of   *)
(* FoodBackend/app.py that read the catalog; and of the review requests of *)
(* FoodBackend/emailclient.py: ReviewDatabase.create_review_request and    *)
(* EmailClient.process_changes (the poll of the mailbox).                  *)
(*                                                                         *)
(* Units.  Geographic coordinates (EPSG:4326) are integers in micro-       *)
(* degrees; metric coordinates (EPSG:3857) are integers in metres.  The    *)
(* modelled window lies within 0.01 degree of (0, 0), where the Web        *)
(* Mercator y = R*ln(tan(pi/4 + lat/2)) differs from R*lat by less than a  *)
(* micrometre, so both axes scale by R*pi/180 = 111319.49 m per degree.    *)
(* Each conversion rounds to the nearest unit of its target, as the float  *)
(* arithmetic of the program rounds to the nearest representable value.    *)
(***************************************************************************)
EXTENDS Integers, Sequences, FiniteSets, TLC

VARIABLES extract, osm, pois, status, db, query, result,
          reply, descriptions, pc, self_pois,
          reviews, created, inbox, junk, archive

\* The state of the constructor while it runs (PlacesManager.__init__).
stepVars == <<pc, self_pois>>

\* The review requests (reviews.db) and the mailbox the poll job reads.
reviewVars == <<reviews, created, inbox, junk, archive>>

vars == <<extract, osm, pois, status, db, query, result,
          reply, descriptions, pc, self_pois,
          reviews, created, inbox, junk, archive>>

(***************************************************************************)
(* Bounds of the model.                                                    *)
(***************************************************************************)
MaxRecords == 2
\* The uuids uuid4 can draw.
MaxReviews == 2
\* The messages delivered to the mailbox.
MaxInbox == 2

(***************************************************************************)
(* Values.                                                                 *)
(***************************************************************************)
\* Python None / pandas NA in a column of strings.
NULL == "<NULL>"

\* allowed_amenities, placesdatabase.py line 52.
allowed_amenities ==
    {"restaurant", "pub", "fast_food", "cafe", "bar", "ice_cream",
     "cinema", "events_venue", "theatre"}

\* The 'tags' column of a raw record: None or the empty string ("none"), a
\* string that json.loads rejects ("malformed"), JSON text that is not an
\* object ("notmapping"), or a JSON object ("mapping") with the two keys the
\* build reads.  osm.get_pois(custom_filter={"fhrs:id": True}) only returns
\* elements that carry an fhrs:id tag, so an object always has that key.
NoTags == [kind |-> "none", fhrs_id |-> NULL, amenity |-> NULL]
Malformed == [kind |-> "malformed", fhrs_id |-> NULL, amenity |-> NULL]
NotMapping == [kind |-> "notmapping", fhrs_id |-> NULL, amenity |-> NULL]
Mapping(i, a) == [kind |-> "mapping", fhrs_id |-> i, amenity |-> a]

Ids == {"1", "2"}
InputAmenities == {NULL, "restaurant", "cafe", "hospital"}
Names == {NULL, "", "Pizza Palace", "Duplicate"}
TagValues ==
    {NoTags, Malformed, NotMapping}
        \cup {Mapping(i, a) : i \in Ids, a \in InputAmenities}

\* Raw positions, in microdegrees: 4495 microdegrees project to 500 m, and
\* 500 m convert back to 4492 microdegrees.
Coords == {0, 4495}

AllRecords == [name : Names, tags : TagValues, lon : Coords, lat : Coords]

BaseRecord ==
    [name |-> "Pizza Palace", tags |-> Mapping("1", "restaurant"),
     lon |-> 0, lat |-> 0]

\* In how many of name, tags kind, identifier, amenity and position a record
\* differs from the base record.
Deviations(r) ==
    (IF r.name = BaseRecord.name THEN 0 ELSE 1)
        + (IF r.tags.kind # "mapping" THEN 1
           ELSE (IF r.tags.fhrs_id = BaseRecord.tags.fhrs_id THEN 0 ELSE 1)
                    + (IF r.tags.amenity = BaseRecord.tags.amenity THEN 0 ELSE 1))
        + (IF r.lon = BaseRecord.lon /\ r.lat = BaseRecord.lat THEN 0 ELSE 1)

\* The raw records the extract may hold: the well-formed base record and
\* every record that differs from it in one of name, tags, position.
RawRecords == {r \in AllRecords : Deviations(r) <= 1}

\* Query arguments: centres in microdegrees (8983 microdegrees project to
\* 1000 m), radii in metres (500 is the default of find_nearby_pois, 2000 the
\* radius read_root passes).
CenterLons == {0, 4492, 8983}
CenterLats == {0}
Radii == {-1, 0, 500, 2000}

(***************************************************************************)
(* Projection: GeoDataFrame.to_crs between EPSG:4326 and EPSG:3857.        *)
(***************************************************************************)
MetresPerDegree == 111319
MicroPerDegree == 1000000

RoundDiv(a, b) ==
    LET q == a \div b
        r == a % b
    IN  IF 2 * r >= b THEN q + 1 ELSE q

\* to_crs(epsg=3857)
ToMetric(lon, lat) ==
    [x |-> RoundDiv(lon * MetresPerDegree, MicroPerDegree),
     y |-> RoundDiv(lat * MetresPerDegree, MicroPerDegree)]

\* to_crs(epsg=4326)
ToGeographic(x, y) ==
    [lon |-> RoundDiv(x * MicroPerDegree, MetresPerDegree),
     lat |-> RoundDiv(y * MicroPerDegree, MetresPerDegree)]

(***************************************************************************)
(* Sequence helpers standing for the dataframe operations.                 *)
(***************************************************************************)
\* The rows of a frame at the positions in K, in frame order (boolean mask).
KeepIdx(rows, K) ==
    LET F[i \in 0..Len(rows)] ==
            IF i = 0 THEN <<>>
            ELSE IF i \in K THEN Append(F[i - 1], rows[i]) ELSE F[i - 1]
    IN  F[Len(rows)]

Range(s) == {s[i] : i \in DOMAIN s}

(***************************************************************************)
(* PlacesManager.__init__                                                  *)
(***************************************************************************)
\* json.loads(x) raises JSONDecodeError on malformed text; .get raises
\* AttributeError on a value that is not an object.  Nothing catches either.
TagsRaise(tags) == tags.kind \in {"malformed", "notmapping"}

\* lambda x: json.loads(x).get(key) if x else None
TagGet(tags, key) == IF tags.kind = "mapping" THEN tags[key] ELSE NULL

\* Lines 42-43: the columns fsa_id and amenity are added to every row.
WithColumns(recs) ==
    [i \in DOMAIN recs |->
        [fsa_id |-> TagGet(recs[i].tags, "fhrs_id"),
         name |-> recs[i].name,
         amenity |-> TagGet(recs[i].tags, "amenity"),
         tags |-> recs[i].tags,
         lon |-> recs[i].lon,
         lat |-> recs[i].lat]]

\* Lines 46-49: name.notna() & amenity.notna().  The empty string is not NA.
NotNaMut(row) == row.amenity # NULL
NotNa(row) == row.name # NULL /\ row.amenity # NULL

\* Line 53: amenity.isin(allowed_amenities)
IsAllowedMut(row) == TRUE
IsAllowed(row) == row.amenity \in allowed_amenities

\* Line 56: drop_duplicates(subset='fsa_id') keeps the first row of each
\* fsa_id; set_index('fsa_id') then makes fsa_id the index.
DropDuplicatesNone(rows) == rows
DropDuplicatesLast(rows) ==
    KeepIdx(rows, {i \in DOMAIN rows :
                     \A j \in (i + 1)..Len(rows) : rows[j].fsa_id # rows[i].fsa_id})
DropDuplicates(rows) ==
    KeepIdx(rows, {i \in DOMAIN rows :
                     \A j \in 1..(i - 1) : rows[j].fsa_id # rows[i].fsa_id})

\* Lines 61-64 taking lat and lon from the columns of the raw record.
ProjectKeepRaw(rows) ==
    [i \in DOMAIN rows |->
        [fsa_id |-> rows[i].fsa_id,
         name |-> rows[i].name,
         amenity |-> rows[i].amenity,
         tags |-> rows[i].tags,
         geometry |-> ToMetric(rows[i].lon, rows[i].lat),
         lat |-> rows[i].lat,
         lon |-> rows[i].lon]]

\* Lines 63-64 with the two axes of the centroid exchanged.
ProjectSwapped(rows) ==
    [i \in DOMAIN rows |->
        LET g == ToMetric(rows[i].lon, rows[i].lat)
            c == ToGeographic(g.x, g.y)
        IN  [fsa_id |-> rows[i].fsa_id,
             name |-> rows[i].name,
             amenity |-> rows[i].amenity,
             tags |-> rows[i].tags,
             geometry |-> g,
             lat |-> c.lon,
             lon |-> c.lat]]

\* Lines 58-64: the geometry is projected to EPSG:3857; lat and lon are the
\* centroid (of a point: the point) converted back to EPSG:4326.
Project(rows) ==
    [i \in DOMAIN rows |->
        LET g == ToMetric(rows[i].lon, rows[i].lat)
            c == ToGeographic(g.x, g.y)
        IN  [fsa_id |-> rows[i].fsa_id,
             name |-> rows[i].name,
             amenity |-> rows[i].amenity,
             tags |-> rows[i].tags,
             geometry |-> g,
             lat |-> c.lat,
             lon |-> c.lon]]

\* Lines 39-64 on records whose tags parse.
BuildCatalog(recs) ==
    LET rows0 == WithColumns(recs)
        rows1 == KeepIdx(rows0, {i \in DOMAIN rows0 : NotNa(rows0[i])})
        rows2 == KeepIdx(rows1, {i \in DOMAIN rows1 : IsAllowed(rows1[i])})
    IN  Project(DropDuplicates(rows2))

\* INSERT OR REPLACE in place of INSERT OR IGNORE.
InsertOrReplace(table, row) ==
    {t \in table : t.fsa_id # row.fsa_id}
        \cup {[fsa_id |-> row.fsa_id, name |-> row.name, amenity |-> row.amenity]}

\* Lines 66-71: INSERT OR IGNORE INTO pois, one row per entry, in order.  A
\* row whose fsa_id (the primary key) is already in the table is ignored.
InsertOrIgnore(table, row) ==
    IF \E t \in table : t.fsa_id = row.fsa_id
    THEN table
    ELSE table \cup {[fsa_id |-> row.fsa_id, name |-> row.name,
                      amenity |-> row.amenity]}

InsertAll(table, rows) ==
    LET F[i \in 0..Len(rows)] ==
            IF i = 0 THEN table ELSE InsertOrIgnore(F[i - 1], rows[i])
    IN  F[Len(rows)]

(***************************************************************************)
(* PlacesManager.find_nearby_pois                                          *)
(***************************************************************************)
\* center.buffer(radius_m).bounds.  The buffer of a point by a distance that
\* is not positive is the empty polygon, whose bounds are all NaN.
BufferBoundsMut(c, r) ==
    [empty |-> r <= 0,
     minx |-> c.x - r + 1, miny |-> c.y - r + 1,
     maxx |-> c.x + r - 1, maxy |-> c.y + r - 1]
BufferBounds(c, r) ==
    [empty |-> r <= 0,
     minx |-> c.x - r, miny |-> c.y - r,
     maxx |-> c.x + r, maxy |-> c.y + r]

InBox(g, b) ==
    /\ b.minx <= g.x /\ g.x <= b.maxx
    /\ b.miny <= g.y /\ g.y <= b.maxy

\* self.pois.sindex.intersection(bbox): the positions of the rows whose
\* point lies in the closed box.  For NaN bounds the answer depends on how
\* the installed GEOS compares envelopes: either no row or every row.
SindexIntersection(rows, b) ==
    IF b.empty
    THEN {{}, DOMAIN rows}
    ELSE {{i \in DOMAIN rows : InBox(rows[i].geometry, b)}}

Dist2(g, c) == (g.x - c.x) * (g.x - c.x) + (g.y - c.y) * (g.y - c.y)

\* candidates.distance(center) <= radius_m
DistanceLEMut(g, c, r) == TRUE
DistanceLE(g, c, r) == r >= 0 /\ Dist2(g, c) <= r * r

\* Lines 84-88: the candidates within radius_m of the centre.
Nearby(rows, cand, c, r) ==
    {rows[i] : i \in {j \in cand : DistanceLE(rows[j].geometry, c, r)}}

(***************************************************************************)
(* State machine.                                                          *)
(***************************************************************************)
\* query.returned: find_nearby_pois has returned `result` for these arguments.
NoQuery == [lon |-> 0, lat |-> 0, radius_m |-> 0, returned |-> FALSE]

\* reply: what read_item or search returned last (the catalog rows in it).
NoReply == [op |-> "none", rows |-> {}]

\* created: the last create_review_request call and its outcome.
NoCall == [outcome |-> "none"]

Init ==
    /\ extract = <<>>
    /\ osm = <<>>
    /\ pois = <<>>
    /\ status = "unbuilt"
    /\ db = {}
    /\ query = NoQuery
    /\ result = {}
    /\ reply = NoReply
    /\ descriptions = {}
    /\ pc = "idle"
    /\ self_pois = <<>>
    /\ reviews = {}
    /\ created = NoCall
    /\ inbox = <<>>
    /\ junk = {}
    /\ archive = {}

\* The extract reader's file (data.osm.pbf) gains a record.
ExtractAppend ==
    /\ Len(extract) < MaxRecords
    /\ \E r \in RawRecords : extract' = Append(extract, r)
    /\ UNCHANGED <<osm, pois, status, db, query, result, reply, descriptions>>
    /\ UNCHANGED <<stepVars, reviewVars>>

\* The process is stopped and data.osm.pbf is replaced by a new extract; the
\* pois table of the database file stays.
ExtractReset ==
    /\ extract # <<>>
    /\ extract' = <<>>
    /\ osm' = <<>>
    /\ pois' = <<>>
    /\ status' = "unbuilt"
    /\ query' = NoQuery
    /\ result' = {}
    /\ reply' = NoReply
    /\ UNCHANGED <<db, descriptions, stepVars, reviewVars>>

\* A constructor that loads only the entries whose row it has just inserted.
BuildNewRowsOnly ==
    /\ osm' = extract
    /\ IF \E i \in DOMAIN extract : TagsRaise(extract[i].tags)
       THEN /\ status' = "raised"
            /\ pois' = <<>>
            /\ db' = db
       ELSE /\ status' = "built"
            /\ LET all == BuildCatalog(extract)
               IN  /\ pois' = KeepIdx(all, {i \in DOMAIN all :
                                    \A t \in db : t.fsa_id # all[i].fsa_id})
                   /\ db' = InsertAll(db, all)
    /\ query' = NoQuery
    /\ result' = {}
    /\ reply' = NoReply
    /\ UNCHANGED <<extract, descriptions, stepVars, reviewVars>>

\* The process starts: places_manager = PlacesManager("data.osm.pbf", cursor).
\* If a tags value does not parse, the constructor raises at line 42 and the
\* process has no places_manager.
Build ==
    /\ osm' = extract
    /\ IF \E i \in DOMAIN extract : TagsRaise(extract[i].tags)
       THEN /\ status' = "raised"
            /\ pois' = <<>>
            /\ db' = db
       ELSE /\ status' = "built"
            /\ pois' = BuildCatalog(extract)
            /\ db' = InsertAll(db, pois')
    /\ query' = NoQuery
    /\ result' = {}
    /\ reply' = NoReply
    /\ UNCHANGED <<extract, descriptions, stepVars, reviewVars>>

\* find_nearby_pois keeping the candidates in self.pois instead of a local.
FindNearbyInPlace ==
    /\ status = "built"
    /\ \E lon \in CenterLons, lat \in CenterLats, r \in Radii :
          LET center == ToMetric(lon, lat)
              bbox == BufferBounds(center, r)
          IN  \E cand \in SindexIntersection(pois, bbox) :
                 /\ query' = [lon |-> lon, lat |-> lat, radius_m |-> r,
                              returned |-> TRUE]
                 /\ pois' = KeepIdx(pois, cand)
                 /\ result' = Nearby(pois, cand, center, r)
    /\ reply' = NoReply
    /\ UNCHANGED <<extract, osm, status, db, descriptions>>
    /\ UNCHANGED <<stepVars, reviewVars>>

\* places_manager.find_nearby_pois(lon, lat, radius_m)
FindNearby ==
    /\ status = "built"
    /\ \E lon \in CenterLons, lat \in CenterLats, r \in Radii :
          LET center == ToMetric(lon, lat)
              bbox == BufferBounds(center, r)
          IN  \E cand \in SindexIntersection(pois, bbox) :
                 /\ query' = [lon |-> lon, lat |-> lat, radius_m |-> r,
                              returned |-> TRUE]
                 /\ result' = Nearby(pois, cand, center, r)
    /\ reply' = NoReply
    /\ UNCHANGED <<extract, osm, pois, status, db, descriptions>>
    /\ UNCHANGED <<stepVars, reviewVars>>

(***************************************************************************)
(* app.py: read_item and search, the other readers of places_manager.pois. *)
(***************************************************************************)
LookupIds == Ids \cup {"9"}

\* read_item(fsa_id), app.py lines 76-107.  An identifier outside the index
\* answers None.  Otherwise the row is read; get_node_description answers
\* from its cache or asks the model and caches the answer (keyed by the
\* tags), or raises ClientError and the tags are used instead.  The rating
\* is read from the review requests.  Nothing is written to the row.
ReadItem ==
    /\ status = "built"
    /\ \E fsa_id \in LookupIds :
          LET hit == {i \in DOMAIN pois : pois[i].fsa_id = fsa_id}
          IN  IF hit = {}
              THEN /\ reply' = [op |-> "read_item", rows |-> {}]
                   /\ descriptions' = descriptions
              ELSE \E i \in hit, ai \in {"described", "ClientError"} :
                      /\ reply' = [op |-> "read_item", rows |-> {pois[i]}]
                      /\ descriptions' =
                            IF ai = "described"
                            THEN descriptions \cup {pois[i].tags}
                            ELSE descriptions
    /\ query' = NoQuery
    /\ result' = {}
    /\ UNCHANGED <<extract, osm, pois, status, db, stepVars, reviewVars>>

\* DataFrameFuzzySearch.__init__ (searches.py line 43): the searcher works
\* on df.copy(), never on the frame it is given.
SearcherFrame(df) == df

\* search(query), app.py lines 109-124 and searches.py lines 89-148.  The
\* similarity scores of difflib are not modelled: any set of rows may reach
\* the threshold.  The score columns are written to a copy of the matching
\* rows (self.df.loc[...].copy()), and the caller keeps the catalog columns.
Search ==
    /\ status = "built"
    /\ LET df == SearcherFrame(pois)
       IN  \E hits \in SUBSET DOMAIN df :
              reply' = [op |-> "search", rows |-> {df[i] : i \in hits}]
    /\ query' = NoQuery
    /\ result' = {}
    /\ UNCHANGED <<extract, osm, pois, status, db, descriptions>>
    /\ UNCHANGED <<stepVars, reviewVars>>

Next == ExtractAppend \/ Build \/ FindNearby

Spec == Init /\ [][Next]_vars

(***************************************************************************)
(* PlacesManager.__init__ statement by statement.  app.py builds           *)
(* places_manager at import (line 43), before the server accepts requests  *)
(* (line 318): the name is bound, and the readers can run, only once the   *)
(* constructor has returned.                                               *)
(***************************************************************************)
\* Lines 40-41 in a fresh process: the raw frame is assigned to self.pois.
BuildBegin ==
    /\ pc = "idle"
    /\ osm' = extract
    /\ self_pois' = extract
    /\ pc' = "columns"
    /\ status' = "building"
    /\ pois' = <<>>
    /\ query' = NoQuery
    /\ result' = {}
    /\ reply' = NoReply
    /\ UNCHANGED <<extract, db, descriptions, reviewVars>>

\* Lines 42-43: the columns fsa_id and amenity, or the exception.
BuildColumns ==
    /\ pc = "columns"
    /\ IF \E i \in DOMAIN self_pois : TagsRaise(self_pois[i].tags)
       THEN /\ status' = "raised"
            /\ self_pois' = <<>>
            /\ pc' = "idle"
       ELSE /\ status' = status
            /\ self_pois' = WithColumns(self_pois)
            /\ pc' = "filter"
    /\ UNCHANGED <<extract, osm, pois, db, query, result, reply, descriptions>>
    /\ UNCHANGED reviewVars

\* Lines 46-53: the two filters.
BuildFilter ==
    /\ pc = "filter"
    /\ LET rows1 == KeepIdx(self_pois,
                            {i \in DOMAIN self_pois : NotNa(self_pois[i])})
       IN  self_pois' = KeepIdx(rows1, {i \in DOMAIN rows1 : IsAllowed(rows1[i])})
    /\ pc' = "dedup"
    /\ UNCHANGED <<extract, osm, pois, status, db, query, result, reply>>
    /\ UNCHANGED <<descriptions, reviewVars>>

\* Line 56.
BuildDedup ==
    /\ pc = "dedup"
    /\ self_pois' = DropDuplicates(self_pois)
    /\ pc' = "project"
    /\ UNCHANGED <<extract, osm, pois, status, db, query, result, reply>>
    /\ UNCHANGED <<descriptions, reviewVars>>

\* A constructor whose object is already the serving places_manager.
BuildReturnEarly ==
    /\ pc = "project"
    /\ self_pois' = Project(self_pois)
    /\ pois' = self_pois'
    /\ status' = "built"
    /\ pc' = "insert"
    /\ UNCHANGED <<extract, osm, db, query, result, reply>>
    /\ UNCHANGED <<descriptions, reviewVars>>

\* Lines 58-64.
BuildProject ==
    /\ pc = "project"
    /\ self_pois' = Project(self_pois)
    /\ pc' = "insert"
    /\ UNCHANGED <<extract, osm, pois, status, db, query, result, reply>>
    /\ UNCHANGED <<descriptions, reviewVars>>

\* Lines 66-71, the return of the constructor and the binding of
\* places_manager (app.py line 43).
BuildReturn ==
    /\ pc = "insert"
    /\ db' = InsertAll(db, self_pois)
    /\ pois' = self_pois
    /\ status' = "built"
    /\ self_pois' = <<>>
    /\ pc' = "idle"
    /\ UNCHANGED <<extract, osm, query, result, reply, descriptions, reviewVars>>

\* Process starts over changing extracts and one persistent database file.
NextRebuild == ExtractAppend \/ ExtractReset \/ Build

SpecRebuild == Init /\ [][NextRebuild]_vars

NextSteps ==
    \/ ExtractAppend
    \/ BuildBegin \/ BuildColumns \/ BuildFilter \/ BuildDedup
    \/ BuildProject \/ BuildReturn
    \/ FindNearby \/ ReadItem

SpecSteps == Init /\ [][NextSteps]_vars

\* The catalog with all its readers.
NextReaders == ExtractAppend \/ Build \/ FindNearby \/ ReadItem \/ Search

SpecReaders == Init /\ [][NextReaders]_vars

(***************************************************************************)
(* emailclient.py: ReviewDatabase.create_review_request.                   *)
(* A rating is a Python value: an int (isint, with its value) or not.  A   *)
(* subject is None or a str, a sequence of characters of which " " is the  *)
(* whitespace.  The SQL NULL of the email column is the empty sequence: no *)
(* address is empty.                                                       *)
(***************************************************************************)
Ratings ==
    {[isint |-> TRUE, val |-> v] : v \in {0, 1, 5, 6}}
        \cup {[isint |-> FALSE, val |-> 3]}

None == [none |-> TRUE, text |-> <<>>]
Str(t) == [none |-> FALSE, text |-> t]

Subjects ==
    {None} \cup {Str(t) : t \in {<<>>, <<" ">>, <<" ", " ">>, <<"a">>,
                                  <<" ", "a">>, <<"a", " ">>,
                                  <<" ", "a", " ">>, <<"a", " ", "a">>}}

Uuids == 1..MaxReviews
NoEmail == <<>>

RECURSIVE LStrip(_)
LStrip(t) == IF t # <<>> /\ Head(t) = " " THEN LStrip(Tail(t)) ELSE t

RECURSIVE RStrip(_)
RStrip(t) ==
    IF t # <<>> /\ t[Len(t)] = " " THEN RStrip(SubSeq(t, 1, Len(t) - 1)) ELSE t

\* create_review_request storing the subject as given.
StripNone(t) == t

\* str.strip()
Strip(t) == RStrip(LStrip(t))

\* Lines 118-150.
create_review_request(rating, review_subject) ==
    /\ IF ~rating.isint \/ rating.val < 1 \/ rating.val > 5
       THEN /\ created' = [outcome |-> "ValueError", rating |-> rating,
                           review_subject |-> review_subject, uuid |-> 0]
            /\ reviews' = reviews
       ELSE IF \/ review_subject.none
               \/ review_subject.text = <<>>
               \/ Strip(review_subject.text) = <<>>
       THEN /\ created' = [outcome |-> "ValueError", rating |-> rating,
                           review_subject |-> review_subject, uuid |-> 0]
            /\ reviews' = reviews
       ELSE \E review_uuid \in Uuids \ {r.uuid : r \in reviews} :
               /\ reviews' = reviews \cup
                     {[uuid |-> review_uuid, rating |-> rating.val,
                       review_subject |-> Strip(review_subject.text),
                       email |-> NoEmail]}
               /\ created' = [outcome |-> "returned", rating |-> rating,
                              review_subject |-> review_subject,
                              uuid |-> review_uuid]
    /\ UNCHANGED <<extract, osm, pois, status, db, query, result, reply>>
    /\ UNCHANGED <<descriptions, stepVars, inbox, junk, archive>>

\* A direct call, with any arguments.
CreateReviewRequest ==
    \E rating \in Ratings, review_subject \in Subjects :
        create_review_request(rating, review_subject)

NextCreate == CreateReviewRequest

SpecCreate == Init /\ [][NextCreate]_vars

(***************************************************************************)
(* emailclient.py: EmailClient.process_changes, the poll of the mailbox.   *)
(* An address is a sequence of pieces, mailbox, "@" and the pieces of the  *)
(* host, so that endswith is computed and not assumed.  A message is the   *)
(* first address of its ENVELOPE and its Subject header; a Subject is      *)
(* absent, the canonical text of a uuid, or some other text.  The value    *)
(* None of from_email is the empty sequence.                               *)
(***************************************************************************)
LiveSuffix == <<"@", "live.rhul.ac.uk">>

NoFrom == [mailbox |-> "", host |-> <<>>]
Froms ==
    {NoFrom,
     [mailbox |-> "amy", host |-> <<"live.rhul.ac.uk">>],
     [mailbox |-> "eve", host |-> <<"gmail.com">>],
     [mailbox |-> "eve", host |-> <<"not", "live.rhul.ac.uk">>],
     [mailbox |-> "mal", host |-> <<"live.rhul.ac.uk", ".example.com">>]}

NoSubject == [kind |-> "none", uuid |-> 0]
MailSubjects ==
    {NoSubject, [kind |-> "text", uuid |-> 0]}
        \cup {[kind |-> "uuid", uuid |-> u] : u \in 0..MaxReviews}

BaseMessage ==
    [from_ |-> [mailbox |-> "amy", host |-> <<"live.rhul.ac.uk">>],
     subject |-> [kind |-> "uuid", uuid |-> 1]]

\* The messages that differ from BaseMessage in at most one header.
Messages ==
    {m \in [from_ : Froms, subject : MailSubjects] :
        m.from_ = BaseMessage.from_ \/ m.subject = BaseMessage.subject}

\* Lines 12-55: None unless the first address has a mailbox and a host.
get_sender_from_envelope(from_) ==
    IF from_.mailbox = "" \/ from_.host = <<>>
    THEN NoEmail
    ELSE <<from_.mailbox, "@">> \o from_.host

\* `in` in place of str.endswith.
Contains(t, suffix) ==
    \E i \in 1..(Len(t) - Len(suffix) + 1) :
        SubSeq(t, i, i + Len(suffix) - 1) = suffix

\* str.endswith
EndsWith(t, suffix) ==
    /\ Len(t) >= Len(suffix)
    /\ SubSeq(t, Len(t) - Len(suffix) + 1, Len(t)) = suffix

\* uuid.UUID(subject): the uuid, or ValueError.
UUID(subject) ==
    IF subject.kind = "uuid"
    THEN [raises |-> FALSE, uuid |-> subject.uuid]
    ELSE [raises |-> TRUE, uuid |-> 0]

\* Lines 152-181: UPDATE review_requests SET email = ? WHERE uuid = ?
set_email(table, review_uuid, email_addr) ==
    {IF r.uuid = review_uuid THEN [r EXCEPT !.email = email_addr] ELSE r :
        r \in table}

\* Lines 367-391, the loop over the fetched messages; st.inbox collects the
\* messages left in INBOX.  from_email.endswith raises AttributeError on
\* None (line 375): the poll ends there, the effects of the earlier
\* iterations stay.
RECURSIVE process_messages(_, _)
process_messages(messages, st) ==
    IF messages = <<>> THEN st
    ELSE
        LET m == Head(messages)
            from_email == get_sender_from_envelope(m.from_)
            gen_uuid == UUID(m.subject)
        IN  IF from_email = NoEmail
            THEN [st EXCEPT !.inbox = @ \o messages]
            ELSE IF ~EndsWith(from_email, LiveSuffix)
            THEN process_messages(Tail(messages),
                                  [st EXCEPT !.junk = @ \cup {m}])
            ELSE IF m.subject.kind = "none" \/ gen_uuid.raises
            THEN process_messages(Tail(messages),
                                  [st EXCEPT !.inbox = Append(@, m)])
            ELSE process_messages(Tail(messages),
                    [st EXCEPT
                        !.reviews = set_email(@, gen_uuid.uuid, from_email),
                        !.archive = @ \cup {m}])

\* Lines 355-391, one run of the job scheduled at app.py lines 30-32.
ProcessChanges ==
    /\ LET st == process_messages(inbox,
                    [reviews |-> reviews, inbox |-> <<>>,
                     junk |-> junk, archive |-> archive])
       IN  /\ reviews' = st.reviews
           /\ inbox' = st.inbox
           /\ junk' = st.junk
           /\ archive' = st.archive
    /\ UNCHANGED <<extract, osm, pois, status, db, query, result, reply>>
    /\ UNCHANGED <<descriptions, stepVars, created>>

\* A message arrives in INBOX.
Deliver ==
    /\ Len(inbox) + Cardinality(junk) + Cardinality(archive) < MaxInbox
    /\ \E m \in Messages : inbox' = Append(inbox, m)
    /\ UNCHANGED <<extract, osm, pois, status, db, query, result, reply>>
    /\ UNCHANGED <<descriptions, stepVars, reviews, created, junk, archive>>

\* app.py lines 198-237: the body has passed the validation of
\* ReviewRequestCreate (rating 1..5, subject of length >= 1).
PostRatings == {[isint |-> TRUE, val |-> 5]}
PostSubjects == {Str(<<"a">>)}

post_review_request ==
    \E rating \in PostRatings, review_subject \in PostSubjects :
        create_review_request(rating, review_subject)

NextMail == post_review_request \/ Deliver \/ ProcessChanges

SpecMail == Init /\ [][NextMail]_vars

\* The job runs every 30 seconds (app.py lines 30-32): a poll that would
\* change the mailbox or the requests is not postponed forever.
SpecMailFair == SpecMail /\ WF_vars(ProcessChanges)

(***************************************************************************)
(* Vocabulary of the properties, stated on the raw records (self.osm) and  *)
(* not through the operators of the build.                                 *)
(***************************************************************************)
Parses(r) == r.tags.kind \in {"none", "mapping"}

\* The record has a name and an amenity tag of the closed enumeration.
PassesFilter(r) ==
    /\ r.name # NULL
    /\ r.tags.kind = "mapping"
    /\ r.tags.amenity \in allowed_amenities

\* Entry e carries the identifier, name, category, tags and position of r.
EntryFrom(e, r) ==
    /\ e.fsa_id = r.tags.fhrs_id
    /\ e.name = r.name
    /\ e.amenity = r.tags.amenity
    /\ e.tags = r.tags
    /\ e.geometry = ToMetric(r.lon, r.lat)

\* Record i is the first one of its identifier among those passing the filter.
FirstSurvivor(i) ==
    /\ PassesFilter(osm[i])
    /\ \A j \in 1..(i - 1) :
          PassesFilter(osm[j]) => osm[j].tags.fhrs_id # osm[i].tags.fhrs_id

Center == ToMetric(query.lon, query.lat)

WithinRadius(e) ==
    Dist2(e.geometry, Center) <= query.radius_m * query.radius_m

(***************************************************************************)
(* C1..C5: the catalog build.                                              *)
(***************************************************************************)
\* C1: a built catalog holds no two entries with the same identifier.
C1_UniqueIds ==
    status = "built" =>
        \A i, j \in DOMAIN pois : pois[i].fsa_id = pois[j].fsa_id => i = j

\* Two records of one identifier both passed the filter and the catalog was
\* built from them.
C1_Witness ==
    /\ status = "built"
    /\ Len(pois) = 1
    /\ \E i, j \in DOMAIN osm :
          /\ i < j
          /\ PassesFilter(osm[i]) /\ PassesFilter(osm[j])
          /\ osm[i].tags.fhrs_id = osm[j].tags.fhrs_id

\* C2: the entry of an identifier is built from the first record, in input
\* order, among the records of that identifier that pass the filter; every
\* other record leaves no entry, and the build does not fail on duplicates.
C2_FirstSeenWins ==
    status = "built" =>
        /\ \A i \in DOMAIN osm :
              FirstSurvivor(i) => \E k \in DOMAIN pois : EntryFrom(pois[k], osm[i])
        /\ \A k \in DOMAIN pois :
              \E i \in DOMAIN osm : FirstSurvivor(i) /\ EntryFrom(pois[k], osm[i])
        /\ Len(pois) = Cardinality({i \in DOMAIN osm : FirstSurvivor(i)})

\* A later record of the same identifier, with another name or position,
\* passed the filter and was dropped.
C2_Witness ==
    /\ status = "built"
    /\ \E i, j \in DOMAIN osm :
          /\ i < j
          /\ FirstSurvivor(i) /\ PassesFilter(osm[j])
          /\ osm[i].tags.fhrs_id = osm[j].tags.fhrs_id
          /\ osm[i] # osm[j]
          /\ \E k \in DOMAIN pois : EntryFrom(pois[k], osm[i])

\* C3: every entry's category is in the closed enumeration, and no entry is
\* built from a record whose amenity tag is absent or outside it.
C3_CategoryClosed ==
    status = "built" =>
        \A k \in DOMAIN pois :
            /\ pois[k].amenity \in allowed_amenities
            /\ pois[k].amenity = pois[k].tags.amenity
            /\ \A i \in DOMAIN osm :
                  osm[i].tags.amenity \notin allowed_amenities =>
                      ~EntryFrom(pois[k], osm[i])

\* A record with a category outside the enumeration was given to a build that
\* kept another record.
C3_Witness ==
    /\ status = "built"
    /\ Len(pois) >= 1
    /\ \E i \in DOMAIN osm : osm[i].tags.amenity = "hospital"

\* C4 as stated: every entry's name is present and not the empty string.
C4_NameNonEmpty ==
    status = "built" =>
        \A k \in DOMAIN pois : pois[k].name # NULL /\ pois[k].name # ""

\* C4 amended: every entry's name is present (not null); a record with an
\* absent name leaves no entry, while a record whose name is the empty string
\* and whose amenity is allowed is kept.
C4_NamePresent ==
    status = "built" =>
        /\ \A k \in DOMAIN pois : pois[k].name # NULL
        /\ \A i \in DOMAIN osm :
              osm[i].name = "" /\ PassesFilter(osm[i]) =>
                  \E k \in DOMAIN pois : pois[k].fsa_id = osm[i].tags.fhrs_id

\* A record without a name was excluded and a record with the empty name was
\* kept by the same build.
C4_Witness ==
    /\ status = "built"
    /\ \E i \in DOMAIN osm :
          osm[i].name = NULL /\ osm[i].tags.amenity \in allowed_amenities
    /\ \E k \in DOMAIN pois : pois[k].name = ""

\* C5: a build never fails because of one record whose tags do not parse:
\* it completes, and every record that passes the filter has its identifier
\* in the catalog.
C5_BadRecordFiltered ==
    status # "unbuilt" =>
        /\ status = "built"
        /\ \A i \in DOMAIN osm :
              PassesFilter(osm[i]) =>
                  \E k \in DOMAIN pois : pois[k].fsa_id = osm[i].tags.fhrs_id

(***************************************************************************)
(* C6..C10: the radius query.                                              *)
(***************************************************************************)
\* C6: for a radius R >= 0, every returned entry is a catalog entry at
\* Euclidean distance <= R from the projected centre.
C6_Soundness ==
    query.returned /\ query.radius_m >= 0 =>
        \A e \in result : e \in Range(pois) /\ WithinRadius(e)

\* A query returned an entry and left out one that lies in the bounding box
\* but outside the circle.
C6_Witness ==
    /\ query.returned
    /\ query.radius_m > 0
    /\ result # {}
    /\ \E k \in DOMAIN pois :
          /\ InBox(pois[k].geometry, BufferBounds(Center, query.radius_m))
          /\ ~WithinRadius(pois[k])
          /\ pois[k] \notin result

\* C7: for a radius R > 0, the result is the brute-force scan: every catalog
\* entry at distance <= R from the projected centre.
C7_Completeness ==
    query.returned /\ query.radius_m > 0 =>
        result = {e \in Range(pois) : WithinRadius(e)}

\* A query returned an entry that lies exactly on the circle, while another
\* entry lies outside it.
C7_Witness ==
    /\ query.returned
    /\ query.radius_m > 0
    /\ \E e \in result :
          Dist2(e.geometry, Center) = query.radius_m * query.radius_m
    /\ \E k \in DOMAIN pois : pois[k] \notin result

\* C8: with radius 0 the result is exactly the entries located at the
\* projected centre.
C8_ZeroRadius ==
    query.returned /\ query.radius_m = 0 =>
        result = {e \in Range(pois) : e.geometry = Center}

\* C9: a query with a negative radius never returns a normal result.
C9_NegativeRadiusRejected ==
    ~(query.returned /\ query.radius_m < 0)

\* C10: a build from no record, or from records that all parse and are all
\* rejected by the filter, succeeds with an empty catalog; every query on an
\* empty catalog returns the empty set.
C10_EmptyCatalog ==
    /\ (/\ status # "unbuilt"
        /\ \A i \in DOMAIN osm : Parses(osm[i]) /\ ~PassesFilter(osm[i]))
           => (status = "built" /\ pois = <<>>)
    /\ (status = "built" /\ pois = <<>> /\ query.returned) => result = {}

\* A build from records that were all rejected gave an empty catalog, and a
\* query with a positive radius returned from it.
C10_Witness ==
    /\ status = "built"
    /\ Len(osm) >= 1
    /\ pois = <<>>
    /\ query.returned
    /\ query.radius_m > 0

(***************************************************************************)
(* C11..C16: lifetime of the catalog.                                      *)
(***************************************************************************)
\* C11: no reader changes the catalog: after any calls of find_nearby_pois,
\* read_item and search, the entries and their fields are those the
\* constructor produced from the raw records.
C11_ReadersKeepCatalog ==
    (status = "built" /\ (query.returned \/ reply.op # "none")) =>
        pois = BuildCatalog(osm)

\* The readers have answered from a catalog of two entries: a search found
\* rows after read_item had a description cached.
C11_Witness ==
    /\ status = "built"
    /\ Len(pois) = 2
    /\ reply.op = "search"
    /\ reply.rows # {}
    /\ descriptions # {}

\* The columns of a catalog row.
EntryColumns == {"fsa_id", "name", "amenity", "tags", "geometry", "lat", "lon"}

C13_FailedBuildKeepsCatalog ==
    [][(/\ Build
        /\ status = "built"
        /\ \E i \in DOMAIN extract : TagsRaise(extract[i].tags))
          => (status' = "built" /\ pois' = pois)]_vars

C15_NoStoreWritten ==
    [][Build => db' = db]_vars

\* The row the build writes for a catalog entry.
PoisRow(e) == [fsa_id |-> e.fsa_id, name |-> e.name, amenity |-> e.amenity]

\* C15, amended: besides producing the catalog, a successful build writes the
\* pois table: it adds the row (fsa_id, name, amenity) of every entry whose
\* identifier has no row yet and leaves every existing row as it is; a failed
\* build writes nothing; no other state changes.
C15_BuildWritesPoisTable ==
    [][Build =>
        /\ status' = "built" =>
              db' = db \cup {PoisRow(pois'[k]) : k \in
                        {i \in DOMAIN pois' :
                            \A t \in db : t.fsa_id # pois'[i].fsa_id}}
        /\ status' # "built" => db' = db
        /\ UNCHANGED <<extract, descriptions, reviews, inbox, junk, archive>>]_vars

\* A build has added a row for one entry and kept the older row of another.
C15_Witness ==
    /\ status = "built"
    /\ \E k \in DOMAIN pois : PoisRow(pois[k]) \in db
    /\ \E k \in DOMAIN pois : PoisRow(pois[k]) \notin db

SourceOf(k) ==
    osm[CHOOSE i \in DOMAIN osm :
            FirstSurvivor(i) /\ osm[i].tags.fhrs_id = pois[k].fsa_id]

\* C18 as stated: the (lon, lat) of every entry is the original longitude
\* and latitude of its raw record.
C18_OriginalLonLat ==
    status = "built" =>
        \A k \in DOMAIN pois :
            /\ pois[k].lon = SourceOf(k).lon
            /\ pois[k].lat = SourceOf(k).lat

\* C18, amended: the (lon, lat) of every entry is its metric position
\* converted back to geographic coordinates, that is the raw longitude and
\* latitude taken through the projection and back.
C18_RoundTripLonLat ==
    status = "built" =>
        \A k \in DOMAIN pois :
            LET g == ToMetric(SourceOf(k).lon, SourceOf(k).lat)
                c == ToGeographic(g.x, g.y)
            IN  /\ pois[k].lon = c.lon
                /\ pois[k].lat = c.lat

\* An entry whose stored longitude is not the raw one.
C18_Witness ==
    /\ status = "built"
    /\ \E k \in DOMAIN pois : pois[k].lon # SourceOf(k).lon

\* C20: after every successful build, also one against a pois table that an
\* earlier build has filled, every catalog entry has a row in the table with
\* its identifier, its name and its amenity.
C20_TableMatchesCatalog ==
    status = "built" =>
        \A k \in DOMAIN pois :
            \E t \in db :
                /\ t.fsa_id = pois[k].fsa_id
                /\ t.name = pois[k].name
                /\ t.amenity = pois[k].amenity

(***************************************************************************)
(* C17, C19: review requests and their verification by email.              *)
(***************************************************************************)
\* The arguments create_review_request accepts: an integer rating in 1..5
\* and a subject with a character that is not whitespace.
ValidRequest(rating, review_subject) ==
    /\ rating.isint
    /\ rating.val \in 1..5
    /\ ~review_subject.none
    /\ \E i \in DOMAIN review_subject.text : review_subject.text[i] # " "

\* The text from its first to its last character that is not whitespace.
Stripped(t) ==
    LET ink == {i \in DOMAIN t : t[i] # " "}
    IN  IF ink = {} THEN <<>>
        ELSE SubSeq(t, CHOOSE i \in ink : \A j \in ink : i <= j,
                       CHOOSE i \in ink : \A j \in ink : i >= j)

\* C17: create_review_request raises ValueError and stores nothing when the
\* rating is not an integer in 1..5 or the subject is empty or whitespace;
\* otherwise it stores exactly one new request with a fresh uuid, the rating,
\* the stripped subject and no email, and returns the uuid.  Every stored
\* request has a rating in 1..5 and a non-empty subject.
C17_CreateReviewRequest ==
    /\ [](\A r \in reviews : r.rating \in 1..5 /\ r.review_subject # <<>>)
    /\ [][\A rating \in Ratings, review_subject \in Subjects :
            create_review_request(rating, review_subject) =>
                IF ValidRequest(rating, review_subject)
                THEN /\ created'.outcome = "returned"
                     /\ \A r \in reviews : r.uuid # created'.uuid
                     /\ reviews' = reviews \cup
                           {[uuid |-> created'.uuid, rating |-> rating.val,
                             review_subject |-> Stripped(review_subject.text),
                             email |-> NoEmail]}
                ELSE /\ created'.outcome = "ValueError"
                     /\ reviews' = reviews]_vars

\* A second request was stored, its subject given with whitespace around it.
C17_Witness ==
    /\ created.outcome = "returned"
    /\ Cardinality(reviews) = 2
    /\ \E r \in reviews :
          /\ r.uuid = created.uuid
          /\ r.review_subject # created.review_subject.text
          /\ r.email = NoEmail

\* The envelope sender of a message is an address of live.rhul.ac.uk.
FromLive(m) == m.from_.mailbox # "" /\ m.from_.host = <<"live.rhul.ac.uk">>

\* The envelope sender of a message is an address of another domain.
FromElsewhere(m) ==
    /\ m.from_.mailbox # ""
    /\ m.from_.host # <<>>
    /\ m.from_.host # <<"live.rhul.ac.uk">>

AddressOf(m) == <<m.from_.mailbox, "@", m.from_.host[1]>>

\* The Subject of a message is the uuid u.
NamesUuid(m, u) == m.subject.kind = "uuid" /\ m.subject.uuid = u

\* Message i of INBOX is reached by the next poll: no earlier message and
\* not the message itself is without a sender.
Reached(i) == \A j \in 1..i : inbox[j].from_ # NoFrom

\* C19: across any sequence of polls, the email of a review request is set
\* only by a message whose envelope sender ends with '@live.rhul.ac.uk' and
\* whose Subject parses as the uuid of that request; a message from another
\* sender goes to Junk and changes no review request; a message naming a
\* uuid of no stored request changes no review request.
C19_EmailGate ==
    /\ [](\A r \in reviews : r.email # NoEmail =>
            \E m \in archive :
                FromLive(m) /\ NamesUuid(m, r.uuid) /\ r.email = AddressOf(m))
    /\ [](\A m \in junk : FromElsewhere(m))
    /\ [][ProcessChanges =>
            /\ \A r2 \in reviews' :
                  \/ r2 \in reviews
                  \/ \E i \in DOMAIN inbox : \E r \in reviews :
                        /\ Reached(i)
                        /\ FromLive(inbox[i])
                        /\ NamesUuid(inbox[i], r.uuid)
                        /\ r2 = [r EXCEPT !.email = AddressOf(inbox[i])]
            /\ {r.uuid : r \in reviews'} = {r.uuid : r \in reviews}
            /\ \A i \in DOMAIN inbox :
                  (Reached(i) /\ FromElsewhere(inbox[i])) =>
                      inbox[i] \in junk' \ archive'
            /\ (\A i \in DOMAIN inbox :
                    FromLive(inbox[i]) =>
                        \A r \in reviews : ~NamesUuid(inbox[i], r.uuid))
                  => reviews' = reviews]_vars

\* A request verified by a message of a live.rhul.ac.uk sender, while the
\* message of another sender with the same Subject is in Junk.
C19_Witness ==
    /\ \E r \in reviews : r.email # NoEmail
    /\ \E m \in junk : \E r \in reviews : NamesUuid(m, r.uuid)
    /\ inbox = <<>>

\* C21: with the poll run again and again, every INBOX message of a
\* live.rhul.ac.uk sender whose Subject is the uuid of a stored review
\* request eventually has set the email of that request and is in Archive,
\* whatever other messages are in INBOX.
C21_VerificationProgress ==
    \A m \in Messages : \A u \in Uuids :
        (/\ \E i \in DOMAIN inbox : inbox[i] = m
         /\ FromLive(m)
         /\ NamesUuid(m, u)
         /\ \E r \in reviews : r.uuid = u)
            ~> (/\ m \in archive
                /\ \E r \in reviews : r.uuid = u /\ r.email = AddressOf(m))

====
